---- MODULE Spec2Model ----
(***************************************************************************)
(* Law-Agent: the BaseAgent / ReActAgent / ToolCallAgent step loop, the    *)
(* SpecializedAgent Critic loop, the session FIFO and the LegalFlow        *)
(* pipeline, modelled from the Python sources.                             *)
(*                                                                         *)
(* A message content is a pair <<text, length>>: the text is an abstract   *)
(* token, the length is the len() the code compares with 50.  Python None  *)
(* and the empty string both have length 0 and are both falsy, but they    *)
(* are different values (str(None) is "None").                             *)
(***************************************************************************)
EXTENDS Integers, Sequences, FiniteSets, TLC

(***************************************************************************)
(* Bounds of the model.                                                    *)
(***************************************************************************)
\* max_steps of the agents of the model (a constructor parameter)
MaxSteps == 3
\* max_steps of the agent in the runs without tool calls
LongSteps == 4
\* number of run / execute_task calls made on the one agent object
MaxRuns == 2
\* the largest number of tool calls the LLM puts in one reply
BurstCalls == 15
\* number of tool-calling requests the LLM answers over all calls
MaxThinks == 4
\* number of LegalFlow.execute calls
MaxRequests == 3
\* number of add_message calls made on a session by its clients
MaxAdds == 7
\* number of records the vector store holds when an archive check is called directly
MaxRecords == 3
\* number of indicator terms in a user message handed to the router
MaxTerms == 2
\* number of messages in a list that is serialised
MaxMessages == 2
\* the largest length of a short tool output
MaxOutput == 6
\* Config.llm_max_retries (default 3) of the model's Config
llm_max_retries == 2
\* Config.session_memory_size (default 50), Config.context_refine_threshold
\* (default 5) and Config.context_window_size (default 10) of the model's Config
session_memory_size == 6
context_refine_threshold == 2
context_window_size == 3

(***************************************************************************)
(* Program constants.                                                      *)
(***************************************************************************)
ThinkWindow == 10
FinalWindow == 30
FinalLen == 50
MemoryMaxSize == 100
\* toolcall.py 363: the limit used when max_observe is True
DefaultObserve == 2000
\* toolcall.py 368: the characters of "\n\n[Output truncated...]"
MarkerLen == 23
\* toolcall.py 354: the characters before str(result), for the tool web_search
ObsPrefixLen == 46
\* toolcall.py 356: the characters of the text for a tool without output
NoOutputLen == 41
duplicate_threshold == 2
max_critic_rounds == 2
StuckPromptLen == 110
\* get_full_context(query, session_id, top_k=5)
top_k == 5
\* retry_on_timeout: initial_delay=2.0, in sixteenths of a second
initial_delay == 32

VARIABLES
    state,              \* BaseAgent.state
    current_step,       \* BaseAgent.current_step
    max_steps,          \* BaseAgent.max_steps
    hasMemory,          \* BaseAgent.memory is not None
    messages,           \* BaseAgent.memory.messages (<<>> when memory is None)
    system_prompt,      \* BaseAgent.system_prompt, as the sequence of its parts
    next_step_prompt,   \* BaseAgent.next_step_prompt, a content
    current_tool_calls, \* ToolCallAgent.current_tool_calls
    pc,                 \* position of the call in progress ("idle": none)
    frame,              \* locals of the call in progress
    result,             \* what the last call returned, or Raised
    llm_request,        \* the message list of the latest LLM call of the call in progress
    runNo,              \* number of calls started so far
    counters,           \* per-call counts: steps executed, Critic evaluations, refined searches
    thinks,             \* number of tool-calling requests made so far
    sessions,           \* MemoryManager.sessions: session id -> SessionMemory.memory
    added,              \* session id -> number of add_message calls made on the session
    vector_store,       \* the records of the vector store, in the order they were added
    global_info,        \* GlobalMemory.global_info
    global_state,       \* LegalFlow.global_state
    fpc,                \* position of the execute call in progress ("idle": none)
    fcall,              \* locals of the execute call in progress
    flog,               \* the memory-manager, router and agent calls of the execute call
    fresult,            \* what the last execute call returned, or FlowRaised
    requests,           \* number of execute calls started so far
    mem_op,             \* the latest direct call on the memory manager: name, session, argument
    mem_out,            \* what that call returned
    lib_call,           \* the latest call of the router or of a wrapped LLM call
    lib_ret             \* what that call returned

agentVars == <<state, current_step, max_steps, hasMemory, messages, system_prompt,
               next_step_prompt, current_tool_calls, pc, frame, result, llm_request,
               runNo, counters, thinks>>

flowVars == <<sessions, added, vector_store, global_info, global_state, fpc, fcall, flog,
              fresult, requests>>

memVars == <<mem_op, mem_out>>

libVars == <<lib_call, lib_ret>>

\* what an action of the agent, and an action on the pipeline's state, leaves alone
otherThanAgent == <<flowVars, memVars, libVars>>
otherThanFlow == <<agentVars, memVars, libVars>>
otherThanMemory == <<agentVars, libVars>>

vars == <<agentVars, flowVars, memVars, libVars>>

(***************************************************************************)
(* Contents.                                                               *)
(***************************************************************************)
NoneC == <<"<None>", 0>>
EmptyC == <<"", 0>>
ShortC == <<"short answer", 50>>
LongC == <<"long answer", 51>>
RequestC == <<"user request", 12>>
NspC == <<"next step prompt", 40>>
LimitC == <<"step limit reached, answer now", 39>>
CannedLimitC == <<"sorry, step limit reached", 51>>
CannedTaskC == <<"sorry, difficulties", 79>>
NoStepsC == <<"No steps executed", 17>>
StepsC == <<"Step i: ...", 44>>
ObservedC == <<"Observed output of cmd", 60>>
InvalidCmdC == <<"Error: Invalid command format", 29>>
UnknownToolC == <<"Error: Unknown tool", 26>>
ToolErrorC == <<"Error: Tool encountered a problem", 60>>
CriticFeedbackC == <<"Critic feedback, new search query", 80>>
Raised == <<"<raised>", 0>>

Len50(c) == c[2]
Truthy(c) == c[2] > 0
\* str(x): the text of a content; str(None) is the four characters "None"
Str(c) == IF c = NoneC THEN <<"None", 4>> ELSE c
\* f"Error: {str(e)}" for an exception whose text has n characters
ErrorC(n) == <<"Error: LLM failure", 7 + n>>

(***************************************************************************)
(* schema.Message and schema.Memory                                        *)
(***************************************************************************)
\* run: the call that wrote the message (not a field of the code's Message)
Message(role, content, tool_calls, tool_call_id, name, run) ==
    [role |-> role, content |-> content, tool_calls |-> tool_calls,
     tool_call_id |-> tool_call_id, name |-> name, run |-> run]

user_message(content, run) == Message("user", content, <<>>, 0, "", run)
system_message(content, run) == Message("system", content, <<>>, 0, "", run)
assistant_message(content, tool_calls, run) ==
    Message("assistant", content, tool_calls, 0, "", run)
tool_message(content, tool_call_id, name, run) ==
    Message("tool", content, <<>>, tool_call_id, name, run)

\* dataclass equality: every field of the code's Message
SameMessage(a, b) ==
    /\ a.role = b.role
    /\ a.content = b.content
    /\ a.tool_calls = b.tool_calls
    /\ a.tool_call_id = b.tool_call_id
    /\ a.name = b.name

to_dict(m) ==
    IF m.role = "tool"
    THEN [role |-> "tool", content |-> m.content, tool_calls |-> <<>>,
          tool_call_id |-> m.tool_call_id, run |-> m.run]
    ELSE [role |-> m.role, content |-> m.content, tool_calls |-> m.tool_calls,
          tool_call_id |-> 0, run |-> m.run]

add_message(msgs, m) ==
    LET all == Append(msgs, m)
    IN IF Len(all) > MemoryMaxSize
       THEN SubSeq(all, Len(all) - MemoryMaxSize + 1, Len(all))
       ELSE all

get_recent_messages(msgs, n) ==
    IF Len(msgs) > n THEN SubSeq(msgs, Len(msgs) - n + 1, Len(msgs)) ELSE msgs

messages_dict(msgs) == [i \in 1..Len(msgs) |-> to_dict(msgs[i])]

RECURSIVE drop_orphans(_)
drop_orphans(dicts) ==
    IF dicts # <<>> /\ dicts[1].role = "tool"
    THEN drop_orphans(Tail(dicts))
    ELSE dicts

(***************************************************************************)
(* BaseAgent.is_stuck, BaseAgent.handle_stuck_state                        *)
(***************************************************************************)
is_stuck(has, msgs) ==
    IF ~has \/ Len(msgs) < 2 THEN FALSE
    ELSE LET last == msgs[Len(msgs)]
         IN IF ~Truthy(last.content) THEN FALSE
            ELSE Cardinality({i \in 1..(Len(msgs) - 1) :
                     msgs[i].role = "assistant" /\ msgs[i].content = last.content})
                 >= duplicate_threshold

\* the directive and a newline are put in front of the prompt: its length grows
handle_stuck_state(nsp) ==
    IF Truthy(nsp) THEN <<nsp[1], StuckPromptLen + 1 + nsp[2]>>
    ELSE <<"stuck directive", StuckPromptLen>>

(***************************************************************************)
(* The environment: what the LLM and the tools may answer.                 *)
(***************************************************************************)
\* tool_call ids are unique (provider contract): call i of step s of call r
ToolCallId(r, s, i) == (r * 100 + s) * 100 + i

\* a reply of chat_with_tools: its content and the function names of its tool
\* calls ("<nofunction>": a call without a "function" entry), or an exception
TextReply(c) == [kind |-> "reply", content |-> c, fns |-> <<>>, elen |-> 0]
ToolReply(c, n, fn) ==
    [kind |-> "reply", content |-> c, fns |-> [i \in 1..n |-> fn], elen |-> 0]
RaiseReply(n) == [kind |-> "raise", content |-> NoneC, fns |-> <<>>, elen |-> n]

available_functions == {"web_search", "failing_tool"}

ThinkReplies ==
    {TextReply(EmptyC), TextReply(ShortC), TextReply(LongC),
     ToolReply(NoneC, 1, "web_search"), ToolReply(NoneC, BurstCalls, "web_search"),
     ToolReply(NoneC, 1, "<nofunction>"),
     RaiseReply(60)}

\* a reply of chat: the content of the first choice (None is possible), or an exception
ChatReplies == {TextReply(LongC), TextReply(EmptyC), TextReply(NoneC), RaiseReply(60)}

(***************************************************************************)
(* ToolCallAgent.think: the Finished decision after the assistant message  *)
(* was added (toolcall.py 203-247), for a reply without tool calls.        *)
(***************************************************************************)
\* the largest index of a set of indices, 0 when there is none
LastIndex(S) == IF S = {} THEN 0 ELSE CHOOSE i \in S : \A j \in S : j <= i

IsToolMsg(m) == m.role = "tool"
IsAnswerMsg(m) == m.role = "assistant" /\ Truthy(m.content)

think_finished(msgs, content) ==
    LET window == get_recent_messages(msgs, ThinkWindow)
        has_tool_results == \E i \in 1..Len(window) : IsToolMsg(window[i])
        recent_msgs == get_recent_messages(msgs, 20)
        last_tool_index == LastIndex({i \in 1..Len(recent_msgs) : IsToolMsg(recent_msgs[i])})
        last_assistant_index == LastIndex({i \in 1..Len(recent_msgs) : IsAnswerMsg(recent_msgs[i])})
    IN IF has_tool_results
       THEN \/ /\ last_assistant_index > last_tool_index
               /\ Len50(recent_msgs[last_assistant_index].content) > FinalLen
            \/ Truthy(content) /\ Len50(content) > FinalLen
       ELSE Truthy(content) /\ Len50(content) > FinalLen

(***************************************************************************)
(* ToolCallAgent.execute_tool and the loop of ToolCallAgent.act            *)
(***************************************************************************)
execute_tool(call) ==
    IF call.fn \in {"<nofunction>", ""} THEN InvalidCmdC
    ELSE IF call.fn \notin available_functions THEN UnknownToolC
    ELSE IF call.fn = "failing_tool" THEN ToolErrorC
    ELSE ObservedC

\* tool_call["function"]["name"] raises KeyError for a call without "function"
NameRaises(call) == call.fn = "<nofunction>"

\* the calls act handles before one raises (all of them when none does)
ActPrefix(calls) ==
    LET bad == {i \in 1..Len(calls) : NameRaises(calls[i])}
    IN IF bad = {} THEN calls
       ELSE SubSeq(calls, 1, (CHOOSE i \in bad : \A j \in bad : i <= j) - 1)

RECURSIVE add_tool_messages(_, _, _)
add_tool_messages(msgs, calls, run) ==
    IF calls = <<>> THEN msgs
    ELSE add_tool_messages(
             add_message(msgs, tool_message(execute_tool(calls[1]), calls[1].id,
                                            calls[1].fn, run)),
             Tail(calls), run)

(***************************************************************************)
(* State after construction: a SpecializedAgent of the pool (memory=None,  *)
(* state Idle, current_step 0, a next-step prompt chosen by the intent).   *)
(***************************************************************************)
NoFrame ==
    [via |-> "none", context |-> FALSE, handed |-> FALSE, temp_memory |-> FALSE,
     run_original_prompt |-> <<>>, task_original_prompt |-> <<>>,
     previous_state |-> "idle", critic_round |-> 0, ret |-> EmptyC,
     entry_prompt |-> EmptyC]

\* final: what the forced-final LLM call yielded (Raised: an exception)
\* verdict: how the latest Critic evaluation of the call ended
NoCounters ==
    [steps |-> 0, evals |-> 0, searches |-> 0, forced |-> FALSE, final |-> EmptyC, verdict |-> "none"]

InitAgentSteps(steps) ==
    /\ state = "idle"
    /\ current_step = 0
    /\ max_steps = steps
    /\ hasMemory = FALSE
    /\ messages = <<>>
    /\ system_prompt = <<"base">>
    /\ next_step_prompt = NspC
    /\ current_tool_calls = <<>>
    /\ pc = "idle"
    /\ frame = NoFrame
    /\ result = EmptyC
    /\ llm_request = <<>>
    /\ runNo = 0
    /\ counters = NoCounters
    /\ thinks = 0

InitAgent == InitAgentSteps(MaxSteps)

(***************************************************************************)
(* BaseAgent.run, lines 243-268: the part before state_context.            *)
(* sp is system_prompt when run is entered, via the caller; handed: the     *)
(* caller of the agent's entry point passed a context.                     *)
(***************************************************************************)
RunPrologue(via, context, handed, sp, task_original) ==
    \* 248-251: a state that is not Idle is forced to Idle
    /\ state' = "idle"
    /\ current_step' = IF state # "idle" THEN 0 ELSE current_step
    \* 254-257: a temporary memory when the agent has none
    /\ hasMemory' = TRUE
    \* 261-263: the context goes into the system prompt
    /\ system_prompt' = IF context THEN sp \o <<"context">> ELSE sp
    \* 266-267: update_memory("user", request)
    /\ messages' = add_message(messages, user_message(RequestC, runNo + 1))
    /\ frame' = [via |-> via, context |-> context, handed |-> handed,
                 temp_memory |-> ~hasMemory,
                 run_original_prompt |-> IF context THEN sp ELSE <<>>,
                 task_original_prompt |-> task_original,
                 previous_state |-> "idle", critic_round |-> 0, ret |-> EmptyC,
                 \* next_step_prompt as the call found it
                 entry_prompt |-> next_step_prompt]
    /\ runNo' = runNo + 1
    /\ counters' = NoCounters
    /\ llm_request' = <<>>
    /\ pc' = "entered"
    /\ UNCHANGED <<thinks, max_steps, next_step_prompt, current_tool_calls, result>>

\* The owner of the agent assigns the state field before a call: the state
\* argument of the constructor (base.py 66), or PROFESSIONAL_ANSWER left behind
\* by Agent.process_message (agent.py 196-198).
PresetStates == {"finished", "professional_answer"}

SetState(new_state) ==
    /\ pc = "idle"
    /\ runNo < MaxRuns
    /\ state' = new_state
    /\ pc' = "preset"
    /\ UNCHANGED <<current_step, max_steps, hasMemory, messages, system_prompt,
                   next_step_prompt, current_tool_calls, frame, result, llm_request, runNo,
                   counters, thinks>>
    /\ UNCHANGED otherThanAgent

\* BaseAgent.run / ToolCallAgent.run called directly
Run(context) ==
    /\ pc \in {"idle", "preset"}
    /\ runNo < MaxRuns
    /\ RunPrologue("run", context, context, system_prompt, <<>>)
    /\ UNCHANGED otherThanAgent

\* SpecializedAgent.execute_task, lines 198-232, then the prologue of run
ExecuteTask(context) ==
    /\ pc \in {"idle", "preset"}
    /\ runNo < MaxRuns
    /\ LET enhanced == IF context THEN system_prompt \o <<"context", "plan">>
                       ELSE system_prompt \o <<"plan">>
       IN RunPrologue("task", context, context, enhanced, system_prompt)
    /\ UNCHANGED otherThanAgent

\* SpecializedAgent.run(message, context, domain, intent), lines 144-170, as
\* LegalFlow.execute calls it with the context it assembled: with a domain and
\* an intent (routed) execute_task is called without the context, otherwise
\* BaseAgent.run is called with the message and the callback only
SpecializedRun(routed) ==
    /\ pc \in {"idle", "preset"}
    /\ runNo < MaxRuns
    /\ IF routed
       THEN RunPrologue("task", FALSE, TRUE, system_prompt \o <<"plan">>, system_prompt)
       ELSE RunPrologue("run", FALSE, TRUE, system_prompt, <<>>)
    /\ UNCHANGED otherThanAgent

\* state_context(RUNNING), lines 102-103
EnterRunning ==
    /\ pc = "entered"
    /\ frame' = [frame EXCEPT !.previous_state = state]
    /\ state' = "running"
    /\ pc' = "loop"
    /\ UNCHANGED <<thinks, current_step, max_steps, hasMemory, messages, system_prompt,
                   next_step_prompt, current_tool_calls, result, llm_request,
                   runNo, counters>>
    /\ UNCHANGED otherThanAgent

(***************************************************************************)
(* One step of the loop (base.py 271-282): think, then act when think      *)
(* asks for it, then the stuck check.                                      *)
(***************************************************************************)
LoopGuard_inclusive == current_step <= max_steps /\ state # "finished"
LoopGuard == current_step < max_steps /\ state # "finished"

\* base.py 279-282, after step() returned
AfterStep(msgs) ==
    /\ next_step_prompt' = IF is_stuck(TRUE, msgs)
                           THEN handle_stuck_state(next_step_prompt)
                           ELSE next_step_prompt
    /\ pc' = "loop"

ThinkRequest(msgs) == drop_orphans(messages_dict(get_recent_messages(msgs, ThinkWindow)))

Think(reply) ==
    /\ pc = "loop"
    /\ LoopGuard
    /\ thinks < MaxThinks
    /\ thinks' = thinks + 1
    /\ current_step' = current_step + 1
    /\ counters' = [counters EXCEPT !.steps = @ + 1]
    /\ LET m1 == IF Truthy(next_step_prompt)
                 THEN add_message(messages, user_message(next_step_prompt, runNo))
                 ELSE messages
           calls == [i \in 1..Len(reply.fns) |->
                        [id |-> ToolCallId(runNo, current_step + 1, i), fn |-> reply.fns[i]]]
           m2 == add_message(m1, assistant_message(reply.content, calls, runNo))
           merr == add_message(m1, assistant_message(ErrorC(reply.elen), <<>>, runNo))
       IN /\ llm_request' = ThinkRequest(m1)
          /\ \/ /\ reply.kind = "raise"
                /\ messages' = merr
                /\ AfterStep(merr)
                /\ UNCHANGED <<state, current_tool_calls>>
             \/ /\ reply.kind = "reply"
                /\ calls # <<>>
                /\ messages' = m2
                /\ current_tool_calls' = calls
                /\ pc' = "act"
                /\ UNCHANGED <<state, next_step_prompt>>
             \/ /\ reply.kind = "reply"
                /\ calls = <<>>
                /\ messages' = m2
                /\ current_tool_calls' = <<>>
                /\ state' = IF think_finished(m2, reply.content) THEN "finished" ELSE state
                /\ AfterStep(m2)
    /\ UNCHANGED <<max_steps, hasMemory, system_prompt, frame, result, runNo>>
    /\ UNCHANGED otherThanAgent

Act ==
    /\ pc = "act"
    /\ LET done == ActPrefix(current_tool_calls)
           msgs == add_tool_messages(messages, done, runNo)
       IN /\ messages' = msgs
          /\ \/ /\ done = current_tool_calls
                /\ current_tool_calls' = <<>>
                /\ AfterStep(msgs)
                /\ UNCHANGED state
             \/ \* the exception leaves act, step and the loop: state_context line 107
                /\ done # current_tool_calls
                /\ state' = "error"
                /\ pc' = "unwind"
                /\ UNCHANGED <<current_tool_calls, next_step_prompt>>
    /\ UNCHANGED <<thinks, current_step, max_steps, hasMemory, system_prompt, frame, result,
                   llm_request, runNo, counters>>
    /\ UNCHANGED otherThanAgent

(***************************************************************************)
(* Leaving run: state_context's finally (line 110) and run's finally       *)
(* (lines 372-377).                                                        *)
(***************************************************************************)
\* current: the state when the block is left
state_context_exit_keep(current, previous_state) == current
state_context_exit(current, previous_state) == previous_state

RunFinally(msgs, current) ==
    /\ state' = state_context_exit(current, frame.previous_state)
    /\ hasMemory' = ~frame.temp_memory
    /\ messages' = IF frame.temp_memory THEN <<>> ELSE msgs
    /\ system_prompt' = IF frame.context /\ frame.run_original_prompt # <<>>
                        THEN frame.run_original_prompt
                        ELSE system_prompt

\* the exception propagates out of run, and out of execute_task, which has no handler
Unwind ==
    /\ pc = "unwind"
    /\ RunFinally(messages, state)
    /\ result' = Raised
    /\ pc' = "idle"
    /\ llm_request' = <<>>
    /\ UNCHANGED <<thinks, current_step, max_steps, next_step_prompt, current_tool_calls,
                   frame, runNo, counters>>
    /\ UNCHANGED otherThanAgent

\* run returns v: to the caller (via run), or into execute_task line 235
ReturnFromRun(v, msgs, current) ==
    /\ RunFinally(msgs, current)
    /\ frame' = [frame EXCEPT !.ret = v]
    /\ pc' = "returned"

(***************************************************************************)
(* After the loop (base.py 284-371).                                       *)
(***************************************************************************)
FirstIndex(msgs, m) == CHOOSE i \in 1..Len(msgs) :
    /\ SameMessage(msgs[i], m)
    /\ \A j \in 1..(i - 1) : ~SameMessage(msgs[j], m)

\* lines 342-355: the latest assistant message with content that has a tool
\* message before (the first message equal to) it, or any when there is no tool
final_answer(msgs) ==
    LET no_tool == \A i \in 1..Len(msgs) : ~IsToolMsg(msgs[i])
        ok(j) == /\ IsAnswerMsg(msgs[j])
                 /\ \/ \E i \in 1..(FirstIndex(msgs, msgs[j]) - 1) : IsToolMsg(msgs[i])
                    \/ no_tool
        S == {j \in 1..Len(msgs) : ok(j)}
    IN IF S = {} THEN NoneC ELSE msgs[CHOOSE j \in S : \A k \in S : k <= j].content

\* lines 327-338: the latest assistant message longer than 50, else the canned text
IsLongAnswer(m) == m.role = "assistant" /\ Truthy(m.content) /\ Len50(m.content) > FinalLen

fallback_answer(msgs) ==
    LET j == LastIndex({i \in 1..Len(msgs) : IsLongAnswer(msgs[i])})
    IN IF j = 0 THEN CannedLimitC ELSE msgs[j].content

\* the while condition is false
LoopExit ==
    /\ pc = "loop"
    /\ ~LoopGuard
    /\ \/ \* 284-290: the step limit; the system message, then the LLM is asked
          /\ current_step >= max_steps
          /\ messages' = add_message(messages, system_message(LimitC, runNo))
          /\ counters' = [counters EXCEPT !.forced = TRUE]
          /\ pc' = "forced"
          /\ UNCHANGED <<state, current_step, hasMemory, system_prompt, frame>>
       \/ \* 342-371: Finished before the limit
          /\ current_step < max_steps
          /\ LET fa == final_answer(messages)
                 v == IF Truthy(fa) THEN fa
                      ELSE IF counters.steps > 0 THEN StepsC ELSE NoStepsC
             IN ReturnFromRun(v, messages, "idle")
          /\ current_step' = 0
          /\ UNCHANGED counters
    /\ UNCHANGED <<thinks, max_steps, next_step_prompt, current_tool_calls, result,
                   llm_request, runNo>>
    /\ UNCHANGED otherThanAgent

\* 293-338: the forced final answer
ForcedFinal(reply) ==
    /\ pc = "forced"
    /\ llm_request' = messages_dict(get_recent_messages(messages, FinalWindow))
    /\ LET final_content == Str(reply.content)
           m1 == add_message(messages, assistant_message(final_content, <<>>, runNo))
       IN \/ /\ reply.kind = "reply"
             /\ Truthy(final_content)
             /\ ReturnFromRun(final_content, m1, "idle")
          \/ /\ reply.kind = "raise" \/ ~Truthy(final_content)
             /\ ReturnFromRun(fallback_answer(messages), messages, "idle")
    /\ counters' = [counters EXCEPT
                       !.final = IF reply.kind = "raise" THEN Raised ELSE reply.content]
    /\ current_step' = 0
    /\ UNCHANGED <<thinks, max_steps, next_step_prompt, current_tool_calls, result, runNo>>
    /\ UNCHANGED otherThanAgent

\* run was called directly: the caller has the value
RunReturn ==
    /\ pc = "returned"
    /\ frame.via = "run"
    /\ result' = frame.ret
    /\ pc' = "idle"
    /\ llm_request' = <<>>
    /\ UNCHANGED <<thinks, state, current_step, max_steps, hasMemory, messages, system_prompt,
                   next_step_prompt, current_tool_calls, frame, runNo, counters>>
    /\ UNCHANGED otherThanAgent

(***************************************************************************)
(* SpecializedAgent.execute_task after run (lines 234-386).                *)
(***************************************************************************)
\* 238-248
task_result(ret, has, msgs) ==
    IF Truthy(ret) THEN ret
    ELSE LET j == IF has THEN LastIndex({i \in 1..Len(msgs) : IsLongAnswer(msgs[i])}) ELSE 0
         IN IF j # 0 THEN msgs[j].content ELSE CannedTaskC

TaskAfterRun ==
    /\ pc = "returned"
    /\ frame.via = "task"
    /\ system_prompt' = frame.task_original_prompt
    /\ frame' = [frame EXCEPT !.ret = task_result(frame.ret, hasMemory, messages),
                              !.critic_round = 0]
    /\ pc' = "critic"
    /\ UNCHANGED <<thinks, state, current_step, max_steps, hasMemory, messages,
                   next_step_prompt, current_tool_calls, result, llm_request, runNo,
                   counters>>
    /\ UNCHANGED otherThanAgent

\* 372-386: state forced to Idle, cleanup, return
TaskReturn ==
    /\ state' = "idle"
    /\ current_step' = IF state # "idle" THEN 0 ELSE current_step
    /\ result' = frame.ret
    /\ pc' = "idle"
    /\ llm_request' = <<>>

\* the evaluation that takes a failure for a rejection
self_evaluate_result_strict(verdict) == verdict = "accept"

\* _self_evaluate_result: an exception or an unparsable reply counts as acceptable
self_evaluate_result(verdict) == verdict \in {"accept", "error"}

CriticVerdicts == {"accept", "reject", "error"}

\* one pass of the while loop, lines 255-270
CriticEval(verdict) ==
    /\ pc = "critic"
    /\ frame.critic_round < max_critic_rounds
    /\ counters' = [counters EXCEPT !.evals = @ + 1, !.verdict = verdict]
    /\ \/ /\ self_evaluate_result(verdict)
          /\ TaskReturn
          /\ UNCHANGED frame
       \/ /\ ~self_evaluate_result(verdict)
          /\ frame.critic_round + 1 >= max_critic_rounds
          /\ frame' = [frame EXCEPT !.critic_round = @ + 1]
          /\ TaskReturn
       \/ /\ ~self_evaluate_result(verdict)
          /\ frame.critic_round + 1 < max_critic_rounds
          /\ frame' = [frame EXCEPT !.critic_round = @ + 1]
          /\ pc' = "refine"
          /\ UNCHANGED <<state, current_step, result, llm_request>>
    /\ UNCHANGED <<thinks, max_steps, hasMemory, messages, system_prompt, next_step_prompt,
                   current_tool_calls, runNo>>
    /\ UNCHANGED otherThanAgent

\* lines 280-312.  WebSearchTool.execute returns a dict on every path, and
\* search_result[:2000] (line 311) raises on a dict: the exception leaves
\* execute_task, which has no handler; lines 314-370 are not reached.
RefineQuery(query) ==
    /\ pc = "refine"
    /\ \/ \* no query (LLM failure or an empty reply): the loop goes on
          /\ ~query
          /\ pc' = "critic"
          /\ UNCHANGED <<hasMemory, messages, result, counters, llm_request>>
       \/ \* update_memory (286) creates a Memory when there is none
          /\ query
          /\ hasMemory' = TRUE
          /\ messages' = add_message(messages, system_message(CriticFeedbackC, runNo))
          /\ counters' = [counters EXCEPT !.searches = @ + 1]
          /\ result' = Raised
          /\ pc' = "idle"
          /\ llm_request' = <<>>
    /\ UNCHANGED <<thinks, state, current_step, max_steps, system_prompt, next_step_prompt,
                   current_tool_calls, frame, runNo>>
    /\ UNCHANGED otherThanAgent

(***************************************************************************)
(* The LegalFlow pipeline and the memory manager.                          *)
(*                                                                         *)
(* A text of the pipeline is a record: its body, and the locations it      *)
(* lists when it carries the facts header                                  *)
(* "=== 当前案件已知事实 ===" followed by a line "已知地点：..." (locs = {}  *)
(* for a text that carries neither).                                       *)
(***************************************************************************)
Text(body, locs) == [body |-> body, locs |-> locs]

NoText == Text("<None>", {})
QuestionT == Text("question", {})
FactsT == Text("question quoting the facts header", {"Shenzhen"})
\* a question that names a place in plain words ("the weather in Shenzhen today")
NamedT == Text("question naming Shenzhen", {})
EmptyT == Text("", {})
AnswerT == Text("answer", {})
ApologyT == Text("apology", {})
FlowRaised == Text("<raised>", {})

UserInputs == {QuestionT, FactsT, NamedT, EmptyT}
SessionIds == {"s1", "s2"}

\* what the caller passes as status_callback: None, a callback that works, one
\* that raises on every call, one that raises when called with state "error"
Callbacks == {"none", "ok", "raises", "raises_on_error"}

callback_raises(cb, cb_state) ==
    \/ cb = "raises"
    \/ cb = "raises_on_error" /\ cb_state = "error"

(***************************************************************************)
(* SessionMemory (session.py): a deque with maxlen session_memory_size     *)
(***************************************************************************)
session_add_message_unbounded(memory, role, content) ==
    Append(memory, [role |-> role, content |-> content])
session_add_message(memory, role, content) ==
    LET all == Append(memory, [role |-> role, content |-> content])
    IN IF Len(all) > session_memory_size THEN Tail(all) ELSE all

\* list(self.memory)[-n:]
session_get_recent_messages(memory, n) ==
    IF n = 0 \/ Len(memory) <= n THEN memory
    ELSE SubSeq(memory, Len(memory) - n + 1, Len(memory))

(***************************************************************************)
(* GlobalMemory (global_memory.py); of the entity lists, the locations     *)
(***************************************************************************)
\* An entities dictionary: the keys it has, and under "locations" a list (as
\* the set of its items), under "other" a dictionary (Absent: key not there),
\* under "note" (a key GlobalMemory does not start with) a string.
Absent == "<absent>"

OtherKeys == {"case_no", "court"}

NoOther == [k \in OtherKeys |-> Absent]

Entities(keys, locations, other, note) ==
    [keys |-> keys, locations |-> locations, other |-> other, note |-> note]

NoEntities == Entities({}, {}, NoOther, Absent)

\* the entities route reads from a locations line
Located(locations) == Entities({"locations"}, locations, NoOther, Absent)

InitGlobalInfo == [domain |-> "", intent |-> "", locations |-> {}, other |-> NoOther,
                   note |-> Absent]

\* the merge that keeps only the items the list did not have
global_memory_update_new_items(info, domain, intent, entities) ==
    [info EXCEPT !.domain = IF domain # "" THEN domain ELSE @,
                 !.intent = IF intent # "" THEN intent ELSE @,
                 !.locations = IF "locations" \in entities.keys
                               THEN entities.locations \ @
                               ELSE @]

\* GlobalMemory.update: a domain and an intent replace; per key of entities a
\* list is merged without duplicates, a dictionary is updated, any other
\* value and the value of a new key are stored
global_memory_update(info, domain, intent, entities) ==
    [domain |-> IF domain # "" THEN domain ELSE info.domain,
     intent |-> IF intent # "" THEN intent ELSE info.intent,
     locations |-> IF "locations" \in entities.keys
                   THEN info.locations \cup entities.locations
                   ELSE info.locations,
     other |-> IF "other" \in entities.keys
               THEN [k \in OtherKeys |-> IF entities.other[k] # Absent
                                         THEN entities.other[k]
                                         ELSE info.other[k]]
               ELSE info.other,
     note |-> IF "note" \in entities.keys THEN entities.note ELSE info.note]

\* a line of a context: its tag, and the fields the tag uses
Line(tag, role, texts, locs) == [tag |-> tag, role |-> role, texts |-> texts, locs |-> locs]

\* GlobalMemory.to_string, as lines
global_memory_to_string(info) ==
    LET parts == (IF info.domain # "" THEN <<Line("domain", info.domain, <<>>, {})>> ELSE <<>>)
              \o (IF info.intent # "" THEN <<Line("intent", info.intent, <<>>, {})>> ELSE <<>>)
              \o (IF info.locations # {} THEN <<Line("locations", "", <<>>, info.locations)>>
                  ELSE <<>>)
    IN IF parts # <<>> THEN parts ELSE <<Line("no_global_info", "", <<>>, {})>>

(***************************************************************************)
(* VectorDatabase.search and add_memory (vector_db.py): the result of a    *)
(* call that does not fail                                                 *)
(***************************************************************************)
vector_db_search(store) ==
    IF Len(store) <= top_k THEN store ELSE SubSeq(store, 1, top_k)

(***************************************************************************)
(* MemoryManager.get_full_context, format_context, check_and_archive       *)
(***************************************************************************)
\* the memory header written before the search results are looked at
get_full_context_header_first(query, memory, store, info) ==
    LET recent_messages == session_get_recent_messages(memory, context_window_size)
        history == IF recent_messages # <<>>
                   THEN <<Line("HISTORY", "", <<>>, {})>>
                        \o [i \in 1..Len(recent_messages) |->
                               Line("message", recent_messages[i].role,
                                    <<recent_messages[i].content>>, {})]
                   ELSE <<>>
        long_term_memories == IF query.body # "" THEN vector_db_search(store) ELSE <<>>
        memories == IF query.body # ""
                    THEN <<Line("MEMORIES", "", <<>>, {})>>
                         \o [i \in 1..(2 * Len(long_term_memories)) |->
                                IF i % 2 = 1
                                THEN Line("memory", "", long_term_memories[(i + 1) \div 2].texts, {})
                                ELSE Line("metadata", long_term_memories[i \div 2].session_id,
                                          <<>>, {})]
                    ELSE <<>>
        facts == <<Line("FACTS", "", <<>>, {})>> \o global_memory_to_string(info)
    IN history \o memories \o facts

get_full_context(query, memory, store, info) ==
    LET recent_messages == session_get_recent_messages(memory, context_window_size)
        history == IF recent_messages # <<>>
                   THEN <<Line("HISTORY", "", <<>>, {})>>
                        \o [i \in 1..Len(recent_messages) |->
                               Line("message", recent_messages[i].role,
                                    <<recent_messages[i].content>>, {})]
                   ELSE <<>>
        long_term_memories == IF query.body # "" THEN vector_db_search(store) ELSE <<>>
        memories == IF long_term_memories # <<>>
                    THEN <<Line("MEMORIES", "", <<>>, {})>>
                         \o [i \in 1..(2 * Len(long_term_memories)) |->
                                IF i % 2 = 1
                                THEN Line("memory", "", long_term_memories[(i + 1) \div 2].texts, {})
                                ELSE Line("metadata", long_term_memories[i \div 2].session_id,
                                          <<>>, {})]
                    ELSE <<>>
        \* global_info.get("entities") is a dict with five keys: always true
        facts == <<Line("FACTS", "", <<>>, {})>> \o global_memory_to_string(info)
    IN history \o memories \o facts

\* the places in the session of the user messages of the pairs that
\* check_and_archive sends to add_memory, in the order of the loop (361-374)
archive_starts(memory) ==
    LET old_messages == IF Len(memory) > context_refine_threshold
                        THEN SubSeq(memory, 1, Len(memory) - context_refine_threshold)
                        ELSE <<>>
        starts == {i \in 1..Len(old_messages) :
                      /\ i % 2 = 1
                      /\ i + 1 <= Len(old_messages)
                      /\ old_messages[i].role = "user"
                      /\ old_messages[i + 1].role = "assistant"}
    IN [k \in 1..Cardinality(starts) |->
           CHOOSE i \in starts : Cardinality({j \in starts : j < i}) = k - 1]

\* the texts of old_messages that check_and_archive sends to add_memory
archive_texts(memory) ==
    LET starts == archive_starts(memory)
    IN [k \in 1..Len(starts) |-> <<memory[starts[k]].content, memory[starts[k] + 1].content>>]

\* at: which message of the session's history the user message of the pair
\* is, the session having received total messages so far
archive_records(memory, session_id, total) ==
    LET starts == archive_starts(memory)
        texts == archive_texts(memory)
    IN [k \in 1..Len(texts) |->
           [texts |-> texts[k], session_id |-> session_id,
            at |-> total - Len(memory) + starts[k]]]

(***************************************************************************)
(* CoreAgent.route (core_agent.py 234-299): the entities are read from the *)
(* part of the context after the first facts header.                       *)
(***************************************************************************)
\* the facts header occurs in the line
has_facts_header(line) ==
    \/ line.tag = "FACTS"
    \/ \E i \in 1..Len(line.texts) : line.texts[i].locs # {}

\* the locations listed by the first locations line after the first header
route_entities(context) ==
    LET H == {i \in 1..Len(context) : has_facts_header(context[i])}
    IN IF H = {} THEN NoEntities
       ELSE LET first == CHOOSE i \in H : \A j \in H : i <= j
                later == {i \in H : i > first}
                second == IF later = {} THEN Len(context) + 1
                          ELSE CHOOSE i \in later : \A j \in later : i <= j
                quoted == {k \in 1..Len(context[first].texts) :
                              context[first].texts[k].locs # {}}
                listed == {i \in (first + 1)..(second - 1) : context[i].tag = "locations"}
            IN IF quoted # {}
               THEN Located(context[first].texts[
                                CHOOSE k \in quoted : \A j \in quoted : k <= j].locs)
               ELSE IF listed # {}
               THEN Located(context[CHOOSE i \in listed : \A j \in listed : i <= j].locs)
               ELSE NoEntities

\* what identify_domain_and_intent answers (the LLM, or the keyword fallback)
RouteOutcomes == {<<"Family_Law", "QA_Retrieval">>, <<"Non_Legal", "QA_Retrieval">>}

\* domain_key_map: the general agent serves Non_Legal, a specialist the others
is_specialist(domain) == domain # "Non_Legal"

(***************************************************************************)
(* State after construction of LegalFlow (legal_flow.py 41-92).            *)
(***************************************************************************)
NoCall ==
    [input |-> NoText, session_id |-> "", cb |-> "none", context |-> <<>>,
     domain |-> "", intent |-> "", entities |-> NoEntities, response |-> NoText,
     failure |-> "none", tools |-> FALSE]

InitFlow ==
    /\ sessions = [sid \in SessionIds |-> <<>>]
    /\ added = [sid \in SessionIds |-> 0]
    /\ vector_store = <<>>
    /\ global_info = InitGlobalInfo
    /\ global_state = NoEntities
    /\ fpc = "idle"
    /\ fcall = NoCall
    /\ flog = <<>>
    /\ fresult = NoText
    /\ requests = 0

(***************************************************************************)
(* LegalFlow.execute (legal_flow.py 94-181)                                *)
(***************************************************************************)
\* the except block, lines 175-181: the callback is called outside any try
flow_except(cb) ==
    IF cb # "none" /\ callback_raises(cb, "error") THEN FlowRaised ELSE ApologyT

\* an exception of kind failure reaches the except block
FlowFails(failure) ==
    /\ fcall' = [fcall EXCEPT !.failure = failure]
    /\ fresult' = flow_except(fcall.cb)
    /\ fpc' = "idle"

\* lines 117-120: the user message is stored, the first status callback
FlowStart(input, sid, cb) ==
    /\ fpc = "idle"
    /\ requests < MaxRequests
    /\ requests' = requests + 1
    /\ sessions' = [sessions EXCEPT ![sid] = session_add_message(@, "user", input)]
    /\ added' = [added EXCEPT ![sid] = @ + 1]
    /\ flog' = <<"add_message(user)">>
    /\ \/ /\ ~(cb # "none" /\ callback_raises(cb, "running"))
          /\ fcall' = [NoCall EXCEPT !.input = input, !.session_id = sid, !.cb = cb]
          /\ fresult' = NoText
          /\ fpc' = "context"
       \/ /\ cb # "none" /\ callback_raises(cb, "running")
          /\ fcall' = [NoCall EXCEPT !.input = input, !.session_id = sid, !.cb = cb,
                                     !.failure = "callback"]
          /\ fresult' = flow_except(cb)
          /\ fpc' = "idle"
    /\ UNCHANGED <<vector_store, global_info, global_state>>
    /\ UNCHANGED otherThanFlow

\* line 123: get_full_context; search_ok: the embedding call and the store work
FlowContext(search_ok) ==
    /\ fpc = "context"
    /\ flog' = Append(flog, "get_full_context")
    /\ \/ /\ search_ok
          /\ fcall' = [fcall EXCEPT !.context =
                          get_full_context(fcall.input, sessions[fcall.session_id],
                                           vector_store, global_info)]
          /\ fpc' = "route"
          /\ UNCHANGED fresult
       \/ \* vector_db.search raises RuntimeError, get_full_context has no handler
          /\ ~search_ok
          /\ fcall.input.body # ""
          /\ FlowFails("vector_search")
    /\ UNCHANGED <<sessions, added, vector_store, global_info, global_state, requests>>
    /\ UNCHANGED otherThanFlow

\* lines 127-137: route, then the global update when entities were found
FlowRoute(outcome) ==
    /\ fpc = "route"
    /\ LET entities == route_entities(fcall.context)
           info == global_memory_update(global_info, outcome[1], outcome[2], entities)
       IN \/ /\ entities.keys = {}
             /\ fcall' = [fcall EXCEPT !.domain = outcome[1], !.intent = outcome[2],
                                       !.entities = entities]
             /\ flog' = Append(flog, "route")
             /\ UNCHANGED <<global_info, global_state>>
          \/ /\ entities.keys # {}
             \* self.global_state.update(entities): the keys of entities are replaced
             /\ global_state' = [global_state EXCEPT !.keys = @ \cup entities.keys,
                                                     !.locations = entities.locations]
             \* format_context passes None for domain, intent and entities
             /\ global_info' = global_memory_update(info, "", "", NoEntities)
             /\ fcall' = [fcall EXCEPT !.domain = outcome[1], !.intent = outcome[2],
                                       !.entities = entities,
                                       !.context = global_memory_to_string(global_info')]
             /\ flog' = flog \o <<"route", "global_update">>
    /\ fpc' = "dispatch"
    /\ UNCHANGED <<sessions, added, vector_store, fresult, requests>>
    /\ UNCHANGED otherThanFlow

\* what the run of the selected agent gives: GeneralChatAgent.run catches every
\* exception; SpecializedAgent.run returns a text or raises
AgentOutcomes(domain) ==
    IF is_specialist(domain) THEN {AnswerT, FlowRaised} ELSE {AnswerT}

\* lines 139-162: the agent is selected, the second callback, the agent runs.
\* tools: the ToolCall loop of a specialist executed a tool call (the general
\* agent calls the LLM without tools)
FlowDispatch(outcome, tools) ==
    /\ fpc = "dispatch"
    /\ outcome \in AgentOutcomes(fcall.domain)
    /\ tools => is_specialist(fcall.domain)
    /\ flog' = Append(flog, "agent_run")
    /\ \/ /\ outcome # FlowRaised
          /\ fcall' = [fcall EXCEPT !.response = outcome, !.tools = tools]
          /\ fpc' = "finish"
          /\ UNCHANGED fresult
       \/ /\ outcome = FlowRaised
          /\ fcall' = [fcall EXCEPT !.failure = "agent", !.tools = tools]
          /\ fresult' = flow_except(fcall.cb)
          /\ fpc' = "idle"
    /\ UNCHANGED <<sessions, added, vector_store, global_info, global_state, requests>>
    /\ UNCHANGED otherThanFlow

\* the archive check made before the reply is stored
FlowFinish_archive_first(fail_at) ==
    /\ fpc = "finish"
    /\ LET memory == session_add_message(sessions[fcall.session_id], "assistant",
                                         fcall.response)
           records == archive_records(sessions[fcall.session_id], fcall.session_id,
                                      added[fcall.session_id])
       IN /\ fail_at \in 0..Len(records)
          /\ sessions' = [sessions EXCEPT ![fcall.session_id] = memory]
          /\ added' = [added EXCEPT ![fcall.session_id] = @ + 1]
          /\ flog' = flog \o <<"check_and_archive", "add_message(assistant)">>
          /\ \/ /\ fail_at = 0
                /\ vector_store' = vector_store \o records
                /\ fresult' = fcall.response
                /\ fpc' = "idle"
                /\ UNCHANGED fcall
             \/ /\ fail_at > 0
                /\ vector_store' = vector_store \o SubSeq(records, 1, fail_at - 1)
                /\ FlowFails("vector_add")
    /\ UNCHANGED <<global_info, global_state, requests>>
    /\ UNCHANGED otherThanFlow

\* lines 165-173: the reply is stored, the archive check, the last callback.
\* fail_at: the add_memory call that fails (0: none does)
FlowFinish(fail_at) ==
    /\ fpc = "finish"
    /\ LET memory == session_add_message(sessions[fcall.session_id], "assistant",
                                         fcall.response)
           records == archive_records(memory, fcall.session_id,
                                      added[fcall.session_id] + 1)
       IN /\ fail_at \in 0..Len(records)
          /\ sessions' = [sessions EXCEPT ![fcall.session_id] = memory]
          /\ added' = [added EXCEPT ![fcall.session_id] = @ + 1]
          /\ flog' = flog \o <<"add_message(assistant)", "check_and_archive">>
          /\ \/ /\ fail_at = 0
                /\ vector_store' = vector_store \o records
                /\ fresult' = fcall.response
                /\ fpc' = "idle"
                /\ UNCHANGED fcall
             \/ \* add_memory raises RuntimeError, check_and_archive has no handler
                /\ fail_at > 0
                /\ vector_store' = vector_store \o SubSeq(records, 1, fail_at - 1)
                /\ FlowFails("vector_add")
    /\ UNCHANGED <<global_info, global_state, requests>>
    /\ UNCHANGED otherThanFlow

NextFlow ==
    \/ \E input \in UserInputs, sid \in SessionIds, cb \in Callbacks :
           FlowStart(input, sid, cb)
    \/ \E search_ok \in BOOLEAN : FlowContext(search_ok)
    \/ \E outcome \in RouteOutcomes : FlowRoute(outcome)
    \/ \E outcome \in {AnswerT, FlowRaised}, tools \in BOOLEAN : FlowDispatch(outcome, tools)
    \/ \E fail_at \in 0..session_memory_size : FlowFinish(fail_at)

\* SessionMemory.add_message called by any client of a session
SessionAddMessage(sid, role, content) ==
    /\ added[sid] < MaxAdds
    /\ added' = [added EXCEPT ![sid] = @ + 1]
    /\ sessions' = [sessions EXCEPT ![sid] = session_add_message(@, role, content)]
    /\ UNCHANGED <<vector_store, global_info, global_state, fpc, fcall, flog, fresult,
                   requests>>
    /\ UNCHANGED otherThanFlow

NextSession ==
    \E role \in {"user", "assistant"}, content \in {QuestionT, AnswerT} :
        SessionAddMessage("s1", role, content)


(***************************************************************************)
(* The memory manager called directly (memory_manager.py 269-388): the     *)
(* calls a client may make in any order on one session.                    *)
(***************************************************************************)
MemCall(name, sid, arg) == [name |-> name, sid |-> sid, arg |-> arg]

InitMemory ==
    /\ mem_op = MemCall("none", "", 0)
    /\ mem_out = <<>>

\* MemoryManager.add_message
MemAddMessage(sid, role, content) ==
    /\ added[sid] < MaxAdds
    /\ added' = [added EXCEPT ![sid] = @ + 1]
    /\ sessions' = [sessions EXCEPT ![sid] = session_add_message(@, role, content)]
    /\ mem_op' = MemCall("add_message", sid, content)
    /\ mem_out' = <<>>
    /\ UNCHANGED <<vector_store, global_info, global_state, fpc, fcall, flog, fresult,
                   requests>>
    /\ UNCHANGED otherThanMemory

\* MemoryManager.get_full_context; search_ok: the embedding call and the store work
MemGetFullContext(query, sid, search_ok) ==
    /\ \/ /\ search_ok
          /\ mem_op' = MemCall("get_full_context", sid, query)
          /\ mem_out' = get_full_context(query, sessions[sid], vector_store, global_info)
       \/ /\ ~search_ok
          /\ query.body # ""
          /\ mem_op' = MemCall("get_full_context raised", sid, query)
          /\ mem_out' = <<>>
    /\ UNCHANGED flowVars
    /\ UNCHANGED otherThanMemory

\* SessionMemory.get_recent_messages
MemGetRecentMessages(sid, n) ==
    /\ mem_op' = MemCall("get_recent_messages", sid, n)
    /\ mem_out' = session_get_recent_messages(sessions[sid], n)
    /\ UNCHANGED flowVars
    /\ UNCHANGED otherThanMemory

\* the archive check that also takes the archived messages out of the session
MemCheckAndArchive_trim(sid, fail_at) ==
    /\ LET records == archive_records(sessions[sid], sid, added[sid])
       IN /\ Len(vector_store) + Len(records) <= MaxRecords
          /\ fail_at = 0
          /\ vector_store' = vector_store \o records
          /\ sessions' = [sessions EXCEPT ![sid] =
                              IF Len(@) > context_refine_threshold
                              THEN SubSeq(@, Len(@) - context_refine_threshold + 1, Len(@))
                              ELSE @]
          /\ mem_op' = MemCall("check_and_archive", sid, 0)
    /\ mem_out' = <<>>
    /\ UNCHANGED <<added, global_info, global_state, fpc, fcall, flog, fresult, requests>>
    /\ UNCHANGED otherThanMemory

\* MemoryManager.check_and_archive; fail_at: the add_memory call that fails (0: none)
MemCheckAndArchive(sid, fail_at) ==
    /\ LET records == archive_records(sessions[sid], sid, added[sid])
       IN /\ Len(vector_store) + Len(records) <= MaxRecords
          /\ fail_at \in 0..Len(records)
          /\ \/ /\ fail_at = 0
                /\ vector_store' = vector_store \o records
                /\ mem_op' = MemCall("check_and_archive", sid, 0)
             \/ /\ fail_at > 0
                /\ vector_store' = vector_store \o SubSeq(records, 1, fail_at - 1)
                /\ mem_op' = MemCall("check_and_archive raised", sid, fail_at)
    /\ mem_out' = <<>>
    /\ UNCHANGED <<sessions, added, global_info, global_state, fpc, fcall, flog, fresult,
                   requests>>
    /\ UNCHANGED otherThanMemory

\* the arguments of the GlobalMemory.update calls
UpdateDomains == {"", "Family_Law", "Labor_Law"}

UpdateIntents == {"", "QA_Retrieval"}

UpdateEntities ==
    {NoEntities, Located({"Shenzhen"}), Located({"Shenzhen", "Beijing"}),
     Entities({"other"}, {}, [NoOther EXCEPT !["court"] = "district"], Absent),
     Entities({"other"}, {}, [NoOther EXCEPT !["court"] = "appeal", !["case_no"] = "n1"],
              Absent),
     Entities({"note"}, {}, NoOther, "urgent"),
     Entities({"locations", "note"}, {"Beijing"}, NoOther, "")}

\* GlobalMemory.update
MemUpdateGlobal(domain, intent, entities) ==
    /\ mem_op' = MemCall("update", "", <<domain, intent, entities>>)
    /\ mem_out' = <<>>
    /\ global_info' = global_memory_update(global_info, domain, intent, entities)
    /\ UNCHANGED <<sessions, added, vector_store, global_state, fpc, fcall, flog, fresult,
                   requests>>
    /\ UNCHANGED otherThanMemory

NextGlobal ==
    \E domain \in UpdateDomains, intent \in UpdateIntents, entities \in UpdateEntities :
        MemUpdateGlobal(domain, intent, entities)

NextMemory ==
    \/ \E role \in {"user", "assistant"} :
           MemAddMessage("s1", role, IF role = "user" THEN QuestionT ELSE AnswerT)
    \/ \E query \in {QuestionT, EmptyT}, search_ok \in BOOLEAN :
           MemGetFullContext(query, "s1", search_ok)
    \/ \E n \in 0..(session_memory_size + 1) : MemGetRecentMessages("s1", n)
    \/ \E fail_at \in 0..session_memory_size : MemCheckAndArchive("s1", fail_at)

(***************************************************************************)
(* CoreAgent.identify_domain_and_intent and CoreAgent.route (core_agent.py *)
(* 92-357).  A text is the set of the indicator terms it contains:         *)
(*   "layoff" (cai yuan), "divorce" (li hun), "fraud" (pian),              *)
(*   "contract" (he tong), "company" (gong si), "lawsuit" (su song),       *)
(*   "law" (fa), "family" (the English word); {} is a text without any.    *)
(***************************************************************************)
LegalDomain == {"Labor_Law", "Family_Law", "Contract_Law", "Corporate_Law", "Criminal_Law",
                "Procedural_Query", "Non_Legal"}

LegalIntent == {"QA_Retrieval", "Case_Analysis", "Doc_Drafting", "Calculation",
                "Review_Contract", "Clarification"}

QueryTerms == {"layoff", "divorce", "fraud", "lawsuit", "law"}

\* the user messages: at most MaxTerms indicator terms
Queries == {q \in SUBSET QueryTerms : Cardinality(q) <= MaxTerms}

\* _fuzzy_match_domain: the first branch of the if chain whose term occurs
fuzzy_match_domain(text) ==
    IF "layoff" \in text THEN "Labor_Law"
    ELSE IF "family" \in text \/ "divorce" \in text THEN "Family_Law"
    ELSE IF "contract" \in text THEN "Contract_Law"
    ELSE IF "company" \in text THEN "Corporate_Law"
    ELSE IF "lawsuit" \in text THEN "Procedural_Query"
    ELSE "Non_Legal"

\* _keyword_based_domain_detection: the dictionary is scanned in insertion order
keyword_based_domain_detection(text) ==
    IF "fraud" \in text THEN "Criminal_Law"
    ELSE IF "divorce" \in text THEN "Family_Law"
    ELSE IF "layoff" \in text THEN "Labor_Law"
    ELSE IF "contract" \in text THEN "Contract_Law"
    ELSE IF "company" \in text THEN "Corporate_Law"
    ELSE IF "lawsuit" \in text THEN "Procedural_Query"
    ELSE IF "law" \in text THEN "Family_Law"
    ELSE "Non_Legal"

\* a reply of the domain classifier: the call raises, the reply is no JSON
\* object, or it is an object whose "domain" and "intent" entries are absent
\* ("missing"), no string ("number"), or a string: for the domain its key
\* after upper() and the replacements ("" when it is no key) and its terms
Reply(kind, domain, intent) == [kind |-> kind, domain |-> domain, intent |-> intent]

DomainStr(key, terms) == [key |-> key, terms |-> terms]

MissingDomain == DomainStr("<missing>", {})

NumberDomain == DomainStr("<number>", {})

DomainReplies == {MissingDomain, NumberDomain,
                  DomainStr("LABOR_LAW", {}), DomainStr("NON_LEGAL", {}),
                  DomainStr("NONLEGAL", {}), DomainStr("", {"family"}), DomainStr("", {})}

IntentReplies == {"missing", "number", "QA_RETRIEVAL", "CASE_ANALYSIS", "ADVICE"}

ClassifierReplies ==
    {Reply("raises", MissingDomain, "missing"), Reply("unparsable", MissingDomain, "missing"),
     Reply("not_object", MissingDomain, "missing")}
    \cup {Reply("json", d, i) : d \in DomainReplies, i \in IntentReplies}

\* LegalDomain[key] and LegalIntent[key]: the member of that key, "" for none
domain_of_key(key) ==
    CASE key = "LABOR_LAW" -> "Labor_Law" [] key = "FAMILY_LAW" -> "Family_Law"
      [] key = "CONTRACT_LAW" -> "Contract_Law" [] key = "CORPORATE_LAW" -> "Corporate_Law"
      [] key = "CRIMINAL_LAW" -> "Criminal_Law" [] key = "PROCEDURAL_QUERY" -> "Procedural_Query"
      [] key = "NON_LEGAL" -> "Non_Legal" [] OTHER -> ""

intent_of_key(key) ==
    CASE key = "QA_RETRIEVAL" -> "QA_Retrieval" [] key = "CASE_ANALYSIS" -> "Case_Analysis"
      [] key = "DOC_DRAFTING" -> "Doc_Drafting" [] key = "CALCULATION" -> "Calculation"
      [] key = "REVIEW_CONTRACT" -> "Review_Contract" [] key = "CLARIFICATION" -> "Clarification"
      [] OTHER -> ""

\* the except branch that forgets the query
identify_domain_and_intent_non_legal(query, reply) ==
    IF reply.kind = "json" /\ reply.intent # "number" /\ reply.domain.key = "LABOR_LAW"
    THEN <<"Labor_Law", IF intent_of_key(reply.intent) # "" THEN intent_of_key(reply.intent)
                        ELSE "QA_Retrieval">>
    ELSE <<"Non_Legal", "QA_Retrieval">>

identify_domain_and_intent(query, reply) ==
    LET \* lines 216-221: the except branch
        failed == LET domain == fuzzy_match_domain(query)
                  IN <<IF domain = "Non_Legal"
                       THEN keyword_based_domain_detection(query)
                       ELSE domain,
                       "QA_Retrieval">>
        domain_str == IF reply.domain = MissingDomain THEN DomainStr("NON_LEGAL", {})
                      ELSE reply.domain
        intent_str == IF reply.intent = "missing" THEN "QA_RETRIEVAL" ELSE reply.intent
        \* lines 166-180
        converted == IF domain_str.key \in {"NON_LEGAL", "NONLEGAL"} THEN "Non_Legal"
                     ELSE IF domain_of_key(domain_str.key) # ""
                     THEN domain_of_key(domain_str.key)
                     ELSE LET fuzzy == fuzzy_match_domain(domain_str.terms)
                          IN IF fuzzy = "Non_Legal"
                             THEN keyword_based_domain_detection(query)
                             ELSE fuzzy
        \* lines 183-187
        rechecked == IF converted = "Non_Legal"
                        /\ keyword_based_domain_detection(query) # "Non_Legal"
                     THEN keyword_based_domain_detection(query)
                     ELSE converted
        \* lines 190-199
        forced == IF rechecked = "Non_Legal"
                     /\ query \cap {"law", "divorce", "contract", "company",
                                           "lawsuit"} # {}
                  THEN IF keyword_based_domain_detection(query) = "Non_Legal"
                       THEN "Family_Law"
                       ELSE keyword_based_domain_detection(query)
                  ELSE rechecked
        intent == IF intent_of_key(intent_str) # "" THEN intent_of_key(intent_str)
                  ELSE "QA_Retrieval"
    IN IF reply.kind # "json" THEN failed
       \* upper() of a value that is no string raises AttributeError
       ELSE IF reply.domain = NumberDomain \/ reply.intent = "number" THEN failed
       ELSE <<forced, intent>>

\* route: the classification and the entities read from the context
route(query, context, reply) ==
    LET classified == identify_domain_and_intent(query, reply)
    IN [domain |-> classified[1], intent |-> classified[2],
        entities |-> route_entities(context)]

LibCall(name, arg, reply) == [name |-> name, arg |-> arg, reply |-> reply]

InitLib ==
    /\ lib_call = LibCall("none", {}, Reply("none", MissingDomain, "missing"))
    /\ lib_ret = <<>>

\* the contexts handed to route: of a fresh manager, and with a known location
RouteContexts ==
    {get_full_context(QuestionT, <<>>, <<>>, InitGlobalInfo),
     get_full_context(QuestionT, <<>>, <<>>,
                      global_memory_update(InitGlobalInfo, "Family_Law", "QA_Retrieval",
                                           Located({"Shenzhen"})))}

Route(query, context, reply) ==
    /\ lib_call' = LibCall("route", query, reply)
    /\ lib_ret' = route(query, context, reply)
    /\ UNCHANGED <<agentVars, flowVars, memVars>>

NextRouter ==
    \E query \in Queries, context \in RouteContexts, reply \in ClassifierReplies :
        Route(query, context, reply)

(***************************************************************************)
(* retry_with_backoff and retry_on_timeout (utils/retry.py) around the API *)
(* call of LLM.chat and LLM.chat_with_tools (models/llm.py).               *)
(***************************************************************************)
\* the exception classes an API call raises, and their base classes
ApiErrors == {"APITimeoutError", "RateLimitError", "AuthenticationError", "BadRequestError"}

\* errors that a repeated call cannot cure: bad credentials, a malformed request
NonRetryable == {"AuthenticationError", "BadRequestError"}

Bases(e) ==
    {e, "Exception"}
    \cup (IF e \in ApiErrors THEN {"APIError"} ELSE {})
    \cup (IF e = "APITimeoutError" THEN {"APIConnectionError"} ELSE {})
    \cup (IF e \in {"RateLimitError", "AuthenticationError", "BadRequestError"}
          THEN {"APIStatusError"} ELSE {})

\* except classes: the clause catches e
catches(classes, e) == Bases(e) \cap classes # {}

\* the exceptions argument retry_on_timeout hands to retry_with_backoff
retry_exceptions == {"TimeoutError", "ConnectionError", "Exception"}

\* retry_on_timeout: initial_delay 2.0 and backoff_factor 1.5, the delay in
\* sixteenths of a second
backoff(delay) == (delay * 3) \div 2

\* the handler that keeps the first exception
remember_first(last_exception, e) == IF last_exception = "none" THEN e ELSE last_exception

\* last_exception = e
remember(last_exception, e) == e

\* the except clauses of chat and chat_with_tools around _call_api()
chat_raise(e) ==
    [kind |-> "raised",
     type |-> IF catches({"APITimeoutError", "TimeoutError"}, e) THEN "TimeoutError"
              ELSE "RuntimeError",
     cause |-> e]

ChatCall(name, position, attempt, delay, last_exception, tried) ==
    [name |-> name, pc |-> position, attempt |-> attempt, delay |-> delay,
     last_exception |-> last_exception, tried |-> tried]

ChatNames == {"chat", "chat_with_tools"}

chat_in_progress == IF lib_call.name \in ChatNames THEN lib_call.pc = "attempt" ELSE FALSE

\* chat / chat_with_tools are called: the wrapper starts its loop
ChatStart(name) ==
    /\ ~chat_in_progress
    /\ lib_call' = ChatCall(name, "attempt", 0, initial_delay, "none", <<>>)
    /\ lib_ret' = <<>>
    /\ UNCHANGED <<agentVars, flowVars, memVars>>

\* one pass of the loop: func is called and returns, or raises e
ChatAttempt(outcome) ==
    /\ chat_in_progress
    /\ lib_call.attempt \in 0..llm_max_retries
    /\ LET tried == Append(lib_call.tried, outcome)
       IN IF outcome = "ok"
          THEN /\ lib_call' = [lib_call EXCEPT !.pc = "done", !.tried = tried]
               /\ lib_ret' = [kind |-> "returned", type |-> "str", cause |-> "none"]
          ELSE IF ~catches(retry_exceptions, outcome)
          THEN /\ lib_call' = [lib_call EXCEPT !.pc = "done", !.tried = tried]
               /\ lib_ret' = chat_raise(outcome)
          ELSE LET last_exception == remember(lib_call.last_exception, outcome)
               IN IF lib_call.attempt < llm_max_retries
                  THEN /\ lib_call' = [lib_call EXCEPT !.attempt = @ + 1,
                                                      !.delay = backoff(@),
                                                      !.last_exception = last_exception,
                                                      !.tried = tried]
                       /\ lib_ret' = lib_ret
                  ELSE /\ lib_call' = [lib_call EXCEPT !.pc = "done",
                                                      !.last_exception = last_exception,
                                                      !.tried = tried]
                       /\ lib_ret' = chat_raise(last_exception)
    /\ UNCHANGED <<agentVars, flowVars, memVars>>

NextRetry ==
    \/ \E name \in ChatNames : ChatStart(name)
    \/ \E outcome \in {"ok"} \cup ApiErrors : ChatAttempt(outcome)

(***************************************************************************)
(* schema.Message.to_dict applied to the messages of a Memory: messages    *)
(* made by the four class methods are added to a list, and the list is     *)
(* serialised with to_dict (as the loop of toolcall.py 114-120 does).      *)
(***************************************************************************)
SampleCalls == {<<>>, <<[id |-> ToolCallId(1, 1, 1), fn |-> "web_search"]>>}

SampleMessages ==
    {user_message(c, 0) : c \in {EmptyC, ShortC}}
    \cup {system_message(c, 0) : c \in {EmptyC, ShortC}}
    \cup {assistant_message(c, calls, 0) : c \in {EmptyC, ShortC}, calls \in SampleCalls}
    \cup {tool_message(c, id, name, 0) :
              c \in {ObservedC, ToolErrorC},
              id \in {ToolCallId(1, 1, 1), ToolCallId(1, 1, 2)},
              name \in available_functions}

MsgCall(name, arg) == [name |-> name, arg |-> arg]

msg_list == IF lib_call.name \in {"add_message", "to_dict_list"} THEN lib_call.arg ELSE <<>>

\* Memory.add_message
MsgAdd(m) ==
    /\ Len(msg_list) < MaxMessages
    /\ lib_call' = MsgCall("add_message", add_message(msg_list, m))
    /\ lib_ret' = <<>>
    /\ UNCHANGED <<agentVars, flowVars, memVars>>

\* [msg.to_dict() for msg in messages]
MsgToDictList ==
    /\ lib_call' = MsgCall("to_dict_list", msg_list)
    /\ lib_ret' = messages_dict(msg_list)
    /\ UNCHANGED <<agentVars, flowVars, memVars>>

NextMessage ==
    \/ \E m \in SampleMessages : MsgAdd(m)
    \/ MsgToDictList

(***************************************************************************)
(* The length limit on a tool observation: execute_tool formats and caps   *)
(* the observation (toolcall.py 352-370), act cuts what execute_tool       *)
(* returned (toolcall.py 271-273) and writes it in the tool message. A     *)
(* string is described by the number of characters of its text and the     *)
(* number of characters of the truncation marker that follow them. The     *)
(* agents of the repository are built without max_observe (None), which is *)
(* the case Act models.                                                    *)
(***************************************************************************)
ObsStr(text, marker) == [text |-> text, marker |-> marker]
ObsLen(s) == s.text + s.marker
\* s[:n] for n >= 0
ObsSlice(s, n) ==
    IF n >= ObsLen(s) THEN s
    ELSE IF n <= s.text THEN ObsStr(n, 0)
    ELSE ObsStr(s.text, n - s.text)

\* the values of max_observe: None, a bool (an int in Python: True is 1), an int
ObserveNone == [kind |-> "none", value |-> 0]
ObserveBool(b) == [kind |-> "bool", value |-> IF b THEN 1 ELSE 0]
ObserveInt(n) == [kind |-> "int", value |-> n]
ObserveConfigs ==
    {ObserveNone, ObserveBool(TRUE), ObserveBool(FALSE),
     ObserveInt(ObsPrefixLen + 1), ObserveInt(ObsPrefixLen + MaxOutput),
     ObserveInt(DefaultObserve)}

\* the lengths of str(result) of a tool: short ones, and ones around the limits
OutputLens ==
    (0..MaxOutput)
    \cup {DefaultObserve - ObsPrefixLen, DefaultObserve - ObsPrefixLen + 1,
          DefaultObserve - ObsPrefixLen + MarkerLen, DefaultObserve}

\* toolcall.py 352-357
observation_of(output) ==
    IF output > 0 THEN ObsStr(ObsPrefixLen + output, 0) ELSE ObsStr(NoOutputLen, 0)

\* toolcall.py 359-370: what execute_tool returns for a tool that returned
execute_tool_observation(max_observe, output) ==
    LET observation == observation_of(output)
        max_len == IF max_observe.kind = "bool" THEN DefaultObserve ELSE max_observe.value
    IN IF max_observe.value # 0 /\ ObsLen(observation) > max_len
       THEN ObsStr(ObsSlice(observation, max_len).text, MarkerLen)
       ELSE observation

\* toolcall.py 271-273: isinstance(True, int) holds
act_observation(max_observe, observed) ==
    IF max_observe.value # 0 /\ max_observe.kind \in {"bool", "int"}
    THEN ObsSlice(observed, max_observe.value)
    ELSE observed

ObserveCall(name, max_observe, output) ==
    [name |-> name, arg |-> [max_observe |-> max_observe, output |-> output]]

ObserveExecute(max_observe, output) ==
    /\ lib_call' = ObserveCall("execute_tool", max_observe, output)
    /\ lib_ret' = <<execute_tool_observation(max_observe, output)>>
    /\ UNCHANGED <<agentVars, flowVars, memVars>>

\* the content of the tool message act writes
ObserveAct ==
    /\ lib_call.name = "execute_tool"
    /\ lib_call' = [lib_call EXCEPT !.name = "act"]
    /\ lib_ret' = <<act_observation(lib_call.arg.max_observe, lib_ret[1])>>
    /\ UNCHANGED <<agentVars, flowVars, memVars>>

NextObserve ==
    \/ \E max_observe \in ObserveConfigs, output \in OutputLens :
           ObserveExecute(max_observe, output)
    \/ ObserveAct

NextAgent ==
    \/ \E new_state \in PresetStates : SetState(new_state)
    \/ \E context \in BOOLEAN : Run(context)
    \/ \E context \in BOOLEAN : ExecuteTask(context)
    \/ \E routed \in BOOLEAN : SpecializedRun(routed)
    \/ EnterRunning
    \/ \E reply \in ThinkReplies : Think(reply)
    \/ Act
    \/ Unwind
    \/ LoopExit
    \/ \E reply \in ChatReplies : ForcedFinal(reply)
    \/ RunReturn
    \/ TaskAfterRun
    \/ \E verdict \in CriticVerdicts : CriticEval(verdict)
    \/ \E query \in BOOLEAN : RefineQuery(query)

\* runs of max_steps = LongSteps steps in which the LLM asks for no tool
LongReplies == {TextReply(ShortC), TextReply(LongC), RaiseReply(60)}

NextLong ==
    \/ \E context \in BOOLEAN : Run(context)
    \/ EnterRunning
    \/ \E reply \in LongReplies : Think(reply)
    \/ LoopExit
    \/ \E reply \in ChatReplies : ForcedFinal(reply)
    \/ RunReturn

(***************************************************************************)
(* Two requests on one pooled agent (legal_flow.py 73-82: one agent object *)
(* per domain). The fields of the object are shared; the position and the  *)
(* locals of a call of run belong to the request. The request that is not  *)
(* running is parked in lib_call, and lib_ret names the running one. A     *)
(* request is suspended where run waits: at the LLM call of its next think,*)
(* at the tool of act, at the LLM call of the forced final answer.         *)
(***************************************************************************)
Parked(at, fr, res, req, no, cnt) ==
    [pc |-> at, frame |-> fr, result |-> res, llm_request |-> req, runNo |-> no,
     counters |-> cnt]

SuspendPoints == {"idle", "loop", "act", "forced"}

\* the second request has not called run yet; its call will be call 2
InitPool ==
    /\ InitAgent /\ InitFlow /\ InitMemory
    /\ lib_call = Parked("idle", NoFrame, EmptyC, <<>>, 1, NoCounters)
    /\ lib_ret = <<1>>

\* a request calls run once
PoolRun(context) ==
    /\ frame.via = "none"
    /\ Run(context)

\* the running request is suspended and the other one goes on
PoolSwitch ==
    /\ pc \in SuspendPoints
    /\ lib_call.pc \in SuspendPoints
    /\ pc' = lib_call.pc
    /\ frame' = lib_call.frame
    /\ result' = lib_call.result
    /\ llm_request' = lib_call.llm_request
    /\ runNo' = lib_call.runNo
    /\ counters' = lib_call.counters
    /\ lib_call' = Parked(pc, frame, result, llm_request, runNo, counters)
    /\ lib_ret' = <<3 - lib_ret[1]>>
    /\ UNCHANGED <<state, current_step, max_steps, hasMemory, messages, system_prompt,
                   next_step_prompt, current_tool_calls, thinks>>
    /\ UNCHANGED <<flowVars, memVars>>

NextPool ==
    \/ \E context \in BOOLEAN : PoolRun(context)
    \/ EnterRunning
    \/ \E reply \in {TextReply(ShortC), TextReply(LongC)} : Think(reply)
    \/ LoopExit
    \/ \E reply \in {TextReply(LongC), RaiseReply(60)} : ForcedFinal(reply)
    \/ RunReturn
    \/ PoolSwitch

Init == InitAgent /\ InitFlow /\ InitMemory /\ InitLib

SpecPool == InitPool /\ [][NextPool]_vars

InitLong == InitAgentSteps(LongSteps) /\ InitFlow /\ InitMemory /\ InitLib

SpecLong == InitLong /\ [][NextLong]_vars

\* the agent: calls of run and execute_task on one pooled agent
Spec == Init /\ [][NextAgent]_vars

\* the pipeline: calls of LegalFlow.execute, one at a time
SpecFlow == Init /\ [][NextFlow]_vars

\* one session FIFO under any sequence of add_message calls
SpecSession == Init /\ [][NextSession]_vars

\* the memory manager under any sequence of direct calls
SpecMemory == Init /\ [][NextMemory]_vars

SpecGlobal == Init /\ [][NextGlobal]_vars

SpecRetry == Init /\ [][NextRetry]_vars

SpecMessage == Init /\ [][NextMessage]_vars

SpecObserve == Init /\ [][NextObserve]_vars

SpecRouter == Init /\ [][NextRouter]_vars

(***************************************************************************)
(* Properties of the agent (specification Spec).                           *)
(***************************************************************************)
\* C1: whenever a call of run or execute_task has returned or raised, the
\* state is Idle, and the state becomes Running only from Idle.
C1_IdleOnExit ==
    /\ [](pc \in {"idle", "returned", "critic", "refine"} => state = "idle")
    /\ [][state' = "running" /\ state # "running" => state = "idle"]_vars

\* a call that ended by an exception escaping a step, after steps were executed
C1_Witness ==
    /\ pc = "idle"
    /\ result = Raised
    /\ counters.steps > 0
    /\ counters.evals = 0
    /\ state = "idle"

\* C2: in every call the number of executed steps is at most max_steps, and
\* a step is executed only when current_step < max_steps, whatever the
\* earlier calls on the agent left behind.
C2_StepsBounded ==
    /\ [](counters.steps <= max_steps /\ current_step <= max_steps)
    /\ [][counters'.steps > counters.steps => current_step < max_steps]_vars

\* a later call that reached the step limit after fewer than max_steps steps,
\* because an earlier call ended by an exception and left current_step behind
C2_Witness ==
    /\ runNo >= 2
    /\ pc = "forced"
    /\ counters.steps > 0
    /\ counters.steps < max_steps
    /\ current_step = max_steps

\* C6: in every message list sent to the LLM, every tool message is preceded
\* by an assistant message whose tool_calls hold its tool_call_id.
C6_ToolMessagesAnswerACall ==
    \A i \in 1..Len(llm_request) :
        llm_request[i].role = "tool" =>
            \E j \in 1..(i - 1) :
                /\ llm_request[j].role = "assistant"
                /\ \E k \in 1..Len(llm_request[j].tool_calls) :
                       llm_request[j].tool_calls[k].id = llm_request[i].tool_call_id

\* C7: the Critic evaluation runs at most max_critic_rounds times in a call,
\* the refined search at most max_critic_rounds times, and the call of
\* execute_task then returns a result.
C7_CriticLoopBoundedAndReturns ==
    /\ counters.evals <= 2
    /\ counters.searches <= 2
    /\ (pc = "idle" /\ frame.via = "task" /\ counters.evals > 0 => result # Raised)

\* C8: between calls the agent holds no memory, and the message list sent to
\* the LLM holds no message written by an earlier call.
C8_NoMemoryBetweenCalls ==
    /\ (pc = "idle" => ~hasMemory /\ messages = <<>>)
    /\ \A i \in 1..Len(llm_request) : llm_request[i].run = runNo

\* C10: at the step limit run does not raise and returns a non-empty text:
\* what the forced-final LLM call yielded when it yielded content, else the
\* latest assistant message of more than 50 characters, else the canned text.
C10_ForcedFinalAnswer ==
    [][pc = "forced" /\ pc' # "forced" =>
          /\ pc' = "returned"
          /\ frame'.ret[2] > 0
          /\ LET yielded == counters'.final
                 S == {i \in 1..Len(messages) :
                          messages[i].role = "assistant" /\ messages[i].content[2] > 50}
             IN frame'.ret =
                    IF yielded # Raised /\ yielded[2] > 0 THEN yielded
                    ELSE IF S # {} THEN messages[CHOOSE i \in S : \A j \in S : j <= i].content
                    ELSE CannedLimitC]_vars

(***************************************************************************)
(* Properties of the pipeline (specification SpecFlow) and of the session  *)
(* FIFO (specification SpecSession).                                       *)
(***************************************************************************)
\* C3: execute never raises to its caller, and a call in which the memory
\* manager, the agent, the archive check or the status callback raised
\* returns the apology.
C3_ExecuteNeverRaises ==
    /\ fresult # FlowRaised
    /\ (fpc = "idle" /\ fcall.failure # "none" => fresult = ApologyT)

\* C4: the calls of one execute are made in the order add_message(user),
\* get_full_context, route, the global update (exactly when the entities are
\* not empty), the agent run, add_message(assistant), check_and_archive; a call
\* that returns the agent's response has made all of them, the reply is stored
\* only after the agent returned it, and the archive check runs on a session
\* that holds the reply.
C4_PipelineOrder ==
    LET order == <<"add_message(user)", "get_full_context", "route", "agent_run",
                   "add_message(assistant)", "check_and_archive">>
        NotGlobalUpdate(op) == op # "global_update"
        made == SelectSeq(flog, NotGlobalUpdate)
        updates == {i \in 1..Len(flog) : flog[i] = "global_update"}
        memory == sessions[fcall.session_id]
    IN /\ Len(made) <= Len(order)
       /\ made = SubSeq(order, 1, Len(made))
       /\ \A i \in updates : i = 4 /\ fcall.entities.keys # {}
       /\ (Len(made) >= 4 /\ fcall.entities.keys # {} => updates = {4})
       /\ (Len(made) >= 5 =>
              /\ fcall.response # NoText
              /\ memory # <<>>
              /\ memory[Len(memory)] = [role |-> "assistant", content |-> fcall.response])
       /\ (fpc = "idle" /\ requests > 0 /\ fresult \notin {ApologyT, FlowRaised} =>
              /\ made = order
              /\ fresult = fcall.response)

\* a call that made the global update and returned the agent's response
C4_Witness ==
    /\ fpc = "idle"
    /\ fresult = AnswerT
    /\ fcall.entities.keys # {}
    /\ flog = <<"add_message(user)", "get_full_context", "route", "global_update",
                "agent_run", "add_message(assistant)", "check_and_archive">>

\* C5: a session never holds more than session_memory_size messages; an
\* add_message below capacity appends, and an add_message at capacity drops
\* exactly the oldest message and keeps the order of the others.
C5_SessionBounded ==
    /\ [](\A sid \in SessionIds :
             /\ Len(sessions[sid]) <= session_memory_size
             /\ (added[sid] >= session_memory_size =>
                    Len(sessions[sid]) = session_memory_size))
    /\ [][\A sid \in SessionIds :
             added'[sid] = added[sid] + 1 =>
                 LET old == sessions[sid]
                     new == sessions'[sid]
                 IN IF Len(old) < session_memory_size
                    THEN Len(new) = Len(old) + 1 /\ SubSeq(new, 1, Len(old)) = old
                    ELSE /\ Len(new) = session_memory_size
                         /\ SubSeq(new, 1, Len(new) - 1) = Tail(old)]_vars

\* a full session that had messages evicted and holds both roles
C5_Witness ==
    /\ added["s1"] > session_memory_size
    /\ Len(sessions["s1"]) = session_memory_size
    /\ sessions["s1"][1].role = "assistant"
    /\ sessions["s1"][Len(sessions["s1"])].role = "user"

\* C9: a call in which the vector store or the embedding failed, in
\* get_full_context or in check_and_archive, returns the agent's response.
C9_VectorFailureTolerated ==
    fpc = "idle" /\ fcall.failure \in {"vector_search", "vector_add"} =>
        fresult = AnswerT

(***************************************************************************)
(* Properties of the memory manager (specification SpecMemory).            *)
(***************************************************************************)
\* C11: in every output of get_full_context the section headers that are
\* present come in the order history, memories, facts, each at most once,
\* and each header is followed by a line of its own section (for the facts
\* section: a line of GlobalMemory.to_string).
C11_SectionOrder ==
    mem_op.name = "get_full_context" =>
        LET rank(tag) == CASE tag = "HISTORY" -> 1 [] tag = "MEMORIES" -> 2
                           [] tag = "FACTS" -> 3 [] OTHER -> 0
            headers == {i \in 1..Len(mem_out) : rank(mem_out[i].tag) > 0}
            body(tag) == CASE tag = "HISTORY" -> {"message"}
                           [] tag = "MEMORIES" -> {"memory"}
                           [] tag = "FACTS" -> {"domain", "intent", "locations",
                                                "no_global_info"}
        IN /\ \A i, j \in headers : i < j => rank(mem_out[i].tag) < rank(mem_out[j].tag)
           /\ \A i \in headers :
                  /\ i < Len(mem_out)
                  /\ mem_out[i + 1].tag \in body(mem_out[i].tag)

\* an output with the three sections
C11_Witness ==
    /\ mem_op.name = "get_full_context"
    /\ \E i, j, k \in 1..Len(mem_out) :
           /\ mem_out[i].tag = "HISTORY"
           /\ mem_out[j].tag = "MEMORIES"
           /\ mem_out[k].tag = "FACTS"

\* C12: for a session with no messages, no vector-store hits and an empty
\* global state, get_full_context returns the empty string.
C12_EmptySourcesEmptyContext ==
    /\ mem_op.name = "get_full_context"
    /\ sessions[mem_op.sid] = <<>>
    /\ vector_store = <<>>
    /\ global_info = InitGlobalInfo
    => mem_out = <<>>

(***************************************************************************)
(* Properties of the router (specification SpecRouter).                    *)
(***************************************************************************)
\* C13: route always returns a domain of LegalDomain and an intent of
\* LegalIntent; when the classifier call raises or its reply is no JSON, the
\* domain is the one the keyword matching gives for the query itself (the
\* fuzzy term match, and the keyword scan when that finds nothing) and the
\* intent is QA_Retrieval.
C13_RouteTotalKeywordFallback ==
    lib_call.name = "route" =>
        /\ lib_ret.domain \in LegalDomain
        /\ lib_ret.intent \in LegalIntent
        /\ lib_call.reply.kind \in {"raises", "unparsable"} =>
               /\ lib_ret.intent = "QA_Retrieval"
               /\ lib_ret.domain =
                      IF fuzzy_match_domain(lib_call.arg) # "Non_Legal"
                      THEN fuzzy_match_domain(lib_call.arg)
                      ELSE keyword_based_domain_detection(lib_call.arg)

\* the classifier fails on a query about a layoff, which is routed to labor law
C13_Witness ==
    /\ lib_call.name = "route"
    /\ lib_call.reply.kind \in {"raises", "unparsable"}
    /\ "layoff" \in lib_call.arg
    /\ lib_ret.domain = "Labor_Law"

(***************************************************************************)
(* Properties of the global memory (specification SpecGlobal).             *)
(***************************************************************************)
\* C14: GlobalMemory.update is idempotent: after update(domain, intent,
\* entities), the same update again leaves the global information as it is
\* (lists compared as sets).
C14_UpdateIdempotent ==
    mem_op.name = "update" =>
        global_memory_update(global_info, mem_op.arg[1], mem_op.arg[2], mem_op.arg[3])
            = global_info

\* an update that merged a list, updated the dictionary or stored a new key
\* into information that earlier updates had filled
C14_Witness ==
    /\ mem_op.name = "update"
    /\ mem_op.arg[3].keys # {}
    /\ global_info.locations = {"Shenzhen", "Beijing"}
    /\ global_info.other["court"] = "appeal"
    /\ global_info.note # Absent

C16_RetryBoundedLastSurfaced ==
    lib_call.name \in ChatNames =>
        LET tried == lib_call.tried
        IN /\ Len(tried) <= llm_max_retries + 1
           /\ \A i \in 1..(Len(tried) - 1) : tried[i] # "ok"
           /\ lib_call.pc = "done" =>
                  IF tried[Len(tried)] = "ok"
                  THEN lib_ret.kind = "returned"
                  ELSE /\ lib_ret.kind = "raised"
                       /\ lib_ret.cause = tried[Len(tried)]

\* every attempt failed, the last one with another exception than the first
C16_Witness ==
    /\ lib_call.name \in ChatNames
    /\ lib_call.pc = "done"
    /\ Len(lib_call.tried) = llm_max_retries + 1
    /\ lib_call.tried[1] # lib_call.tried[Len(lib_call.tried)]
    /\ lib_ret.kind = "raised"

\* C17: an authentication error or a malformed request is attempted exactly
\* once and surfaced.
C17_NonRetryableOnce ==
    (/\ lib_call.name \in ChatNames
     /\ lib_call.tried # <<>>
     /\ lib_call.tried[1] \in NonRetryable)
    => /\ Len(lib_call.tried) = 1
       /\ lib_call.pc = "done"
       /\ lib_ret.kind = "raised"
       /\ lib_ret.cause = lib_call.tried[1]

(***************************************************************************)
(* Properties of the Critic (specification Spec).                          *)
(***************************************************************************)
\* C18: the Critic fails open: when the evaluation raises (the LLM call
\* fails or its reply cannot be parsed), the loop ends without a refined
\* search and execute_task returns the answer that was evaluated.
C18_CriticFailsOpen ==
    [][(/\ pc = "critic"
        /\ counters'.evals = counters.evals + 1
        /\ counters'.verdict = "error")
       => /\ pc' = "idle"
          /\ result' = frame.ret
          /\ counters'.searches = counters.searches
          /\ messages' = messages]_vars

\* execute_task has returned its answer after an evaluation that raised
C18_Witness ==
    /\ pc = "idle"
    /\ frame.via = "task"
    /\ counters.verdict = "error"
    /\ counters.searches = 0
    /\ result = frame.ret
    /\ result # Raised

(***************************************************************************)
(* Properties of the session memory (specification SpecMemory).            *)
(***************************************************************************)
\* C19: for every n >= 0, get_recent_messages(n) returns exactly the last
\* min(n, length) messages of the session in insertion order (for n = 0 the
\* empty list).
C19_RecentMessagesLastN ==
    mem_op.name = "get_recent_messages" =>
        LET memory == sessions[mem_op.sid]
            n == mem_op.arg
            k == IF n < Len(memory) THEN n ELSE Len(memory)
        IN mem_out = SubSeq(memory, Len(memory) - k + 1, Len(memory))

(***************************************************************************)
(* Properties of the pipeline's entity bookkeeping (specification          *)
(* SpecFlow).                                                              *)
(***************************************************************************)
\* C20: after execute has answered a query that names an entity (the place
\* Shenzhen), the locations of the global state contain that entity.
C20_NamedEntityRecorded ==
    (/\ fpc = "idle"
     /\ fcall.input = NamedT
     /\ fcall.failure = "none"
     /\ fresult = fcall.response)
    => "Shenzhen" \in (global_state.locations \cup global_info.locations)

\* C21: the global state is per conversation: the context assembled for the
\* first request of a session holds no fact (domain, intent, location) of the
\* global state, whatever was recorded while other sessions were served.
C21_GlobalStatePerSession ==
    (/\ fpc = "route"
     /\ added[fcall.session_id] = 1)
    => \A i \in 1..Len(fcall.context) :
           fcall.context[i].tag \notin {"domain", "intent", "locations"}

(***************************************************************************)
(* Properties of the agent's entry and of its steps (specification Spec).  *)
(***************************************************************************)
\* C22: run called on an agent whose state is not Idle is rejected with an
\* error: the call raises and nothing of it is executed.
C22_NonIdleRunRejected ==
    [][(/\ pc \in {"idle", "preset"}
        /\ state # "idle"
        /\ runNo' = runNo + 1
        /\ frame'.via = "run")
       => /\ pc' = "idle"
          /\ result' = Raised
          /\ messages' = messages]_vars

(***************************************************************************)
(* Properties of the pipeline and its agents (specification SpecFlow).     *)
(***************************************************************************)
\* C23: for an empty input execute (called without a status callback, or
\* with one that works) returns a reply, and no tool call is executed while
\* the request is served.
C23_EmptyInputNoTools ==
    (/\ fpc = "idle"
     /\ requests > 0
     /\ fcall.input = EmptyT
     /\ fcall.cb \in {"none", "ok"})
    => /\ fresult \notin {FlowRaised, NoText}
       /\ ~fcall.tools

(***************************************************************************)
(* Properties of the message serialisation (specification SpecMessage).    *)
(***************************************************************************)
\* C24: a message can be reconstructed from its to_dict() output: a message
\* that serialises to the same dict has the same role, content, tool_calls,
\* tool_call_id and name.
C24_ToDictRoundTrip ==
    lib_call.name = "to_dict_list" =>
        \A i \in 1..Len(lib_ret) :
            \A m \in SampleMessages :
                to_dict(m) = lib_ret[i] => SameMessage(m, lib_call.arg[i])

\* C25: the context that the flow hands to the specialist's run is part of
\* the system prompt while the ToolCall loop of that call runs, so of every
\* LLM call of the loop.
C25_ContextInSystemPrompt ==
    (/\ frame.handed
     /\ pc \in {"loop", "act", "forced"})
    => \E i \in 1..Len(system_prompt) : system_prompt[i] = "context"

\* C26: when route returned entities, the context handed to the selected
\* agent is the full context recomputed after the global update: it holds the
\* dialogue history with the current user input, and the known facts with the
\* merged locations.
C26_ContextRecomputedInFull ==
    (/\ fpc = "dispatch"
     /\ fcall.entities.keys # {})
    => /\ \E i \in 1..Len(fcall.context) :
              /\ fcall.context[i].tag = "message"
              /\ fcall.context[i].role = "user"
              /\ fcall.context[i].texts = <<fcall.input>>
       /\ \E i \in 1..Len(fcall.context) :
              /\ fcall.context[i].tag = "locations"
              /\ fcall.context[i].locs = global_info.locations

\* C27: when the LLM call made by think raises, the step is aborted: the agent
\* goes to Error and the exception leaves the step loop, so that no message is
\* written for the step and no further step is made.
C27_LlmFailureAbortsRun ==
    [][(/\ pc = "loop"
        /\ thinks' = thinks + 1
        /\ Len(messages') > 0
        /\ messages'[Len(messages')].role = "assistant"
        /\ messages'[Len(messages')].content = ErrorC(60))
       => /\ state' = "error"
          /\ pc' = "unwind"]_vars

\* C28: think sets Finished exactly when the reply has no tool calls and its
\* content is longer than 50 characters; a reply with tool calls asks for act
\* with the state still Running; a reply without tool calls whose content has
\* at most 50 characters (or is empty) leaves the state Running and the loop
\* goes on.
C28_FinishedExactlyOnLongAnswer ==
    [][(/\ pc = "loop"
        /\ thinks' = thinks + 1
        /\ messages'[Len(messages')].content # ErrorC(60))
       => LET reply == messages'[Len(messages')]
          IN /\ (state' = "finished")
                    <=> (reply.tool_calls = <<>> /\ Len50(reply.content) > FinalLen)
             /\ reply.tool_calls # <<>> => (pc' = "act" /\ state' = "running")
             /\ (reply.tool_calls = <<>> /\ Len50(reply.content) <= FinalLen)
                    => (pc' = "loop" /\ state' = "running")]_vars

C30_ObservationCapped ==
    lib_call.name = "act"
    => LET max_observe == lib_call.arg.max_observe
           cap == IF max_observe.kind = "int" THEN max_observe.value ELSE DefaultObserve
           written == lib_ret[1]
       IN /\ written.text <= cap
          /\ ObsLen(observation_of(lib_call.arg.output)) > cap => written.marker = MarkerLen

(***************************************************************************)
(* Properties of the Critic loop, the stuck directive and the step counter *)
(* (specification Spec).                                                   *)
(***************************************************************************)
\* C31: whenever the Critic rejects the answer while the round counter is
\* below max_critic_rounds, the refined search is run, and the search is
\* followed by the request for a revised answer and by another evaluation.
C31_RejectionLeadsToRevision ==
    [][/\ (/\ pc = "critic"
           /\ counters'.evals = counters.evals + 1
           /\ counters'.verdict = "reject")
          => pc' = "refine"
       /\ (/\ pc = "refine"
           /\ counters'.searches = counters.searches + 1)
          => (pc' = "critic" /\ result' # Raised /\ llm_request' # <<>>)]_vars

\* C32: within one run the stuck directive is put in front of
\* next_step_prompt at most once, and only when the latest
\* duplicate_threshold assistant messages have the same content.
C32_StuckDirectiveOnce ==
    [][next_step_prompt' # next_step_prompt
       => LET assistant == SelectSeq(messages', LAMBDA m : m.role = "assistant")
              n == Len(assistant)
          IN /\ next_step_prompt = frame.entry_prompt
             /\ n >= duplicate_threshold
             /\ \A i \in (n - duplicate_threshold + 1)..n :
                    assistant[i].content = assistant[n].content]_vars

\* C34: at the start of the step loop of every run current_step is 0, also
\* when the previous run on the agent ended with an exception.
C34_StepCounterStartsAtZero ==
    (pc = "loop" /\ counters.steps = 0) => current_step = 0

C35_NoForcedFinalWhenFinished ==
    [][(pc = "loop" /\ state = "finished" /\ pc' # "loop")
       => (pc' = "returned" /\ frame'.ret = messages[Len(messages)].content)]_vars

(***************************************************************************)
(* Properties of the archive and of the session (specification SpecFlow).  *)
(***************************************************************************)
\* C36: over any sequence of execute calls each exchange of a session is put
\* in the vector store at most once.
C36_ExchangeArchivedOnce ==
    \A i, j \in 1..Len(vector_store) :
        (/\ vector_store[i].session_id = vector_store[j].session_id
         /\ vector_store[i].at = vector_store[j].at)
        => i = j

\* C37: after every execute call, the apology path included, the session ends
\* with the user input followed by an assistant message that holds the reply
\* returned to the caller, and user and assistant messages alternate in every
\* session.
C37_SessionGrowsByExchange ==
    (/\ fpc = "idle"
     /\ requests > 0
     /\ fcall.cb \in {"none", "ok"})
    => LET memory == sessions[fcall.session_id]
           n == Len(memory)
       IN /\ n >= 2
          /\ memory[n - 1] = [role |-> "user", content |-> fcall.input]
          /\ memory[n] = [role |-> "assistant", content |-> fresult]
          /\ \A sid \in SessionIds : \A i \in 1..(Len(sessions[sid]) - 1) :
                 sessions[sid][i].role # sessions[sid][i + 1].role

(***************************************************************************)
(* Properties of the agent's prompts and requests (specification Spec).    *)
(***************************************************************************)
\* C38: when a call of run or execute_task has returned or raised,
\* system_prompt and next_step_prompt are what they were before the call.
C38_PromptsRestored ==
    (pc = "idle" /\ runNo > 0)
    => /\ system_prompt = <<"base">>
       /\ next_step_prompt = frame.entry_prompt

\* C39: the message list every think step sends to the LLM contains the user
\* request that started the run, whatever the number of steps and tool calls
\* before that think step.
C39_RequestInEveryThink ==
    [][(pc = "loop" /\ thinks' = thinks + 1)
       => \E i \in DOMAIN llm_request' :
             /\ llm_request'[i].role = "user"
             /\ llm_request'[i].content = RequestC
             /\ llm_request'[i].run = runNo]_vars

(***************************************************************************)
(* models.llm.LLM: the temperature of a request.  Temperatures are in      *)
(* tenths (0.7 is 7); an argument left out (None) is <<>>, a passed        *)
(* temperature t is <<t>>.                                                 *)
(***************************************************************************)
llm_temperature == 7
MaxTemperature == 10
Temperatures == 0..MaxTemperature
TemperatureArgs == {<<>>} \cup {<<t>> : t \in Temperatures}

\* Python's `temperature or self.temperature`: None and 0.0 are both falsy
temperature_or(temperature, self_temperature) ==
    IF temperature # <<>> /\ temperature[1] # 0 THEN temperature[1] ELSE self_temperature

LLMObject(self_temperature, name, temperature, stream) ==
    [self_temperature |-> self_temperature, name |-> name,
     temperature |-> temperature, stream |-> stream]

\* LLM.__init__: self.temperature = self.config.llm_temperature, 0.7 unless configured
InitTemperature ==
    /\ InitAgent /\ InitFlow /\ InitMemory
    /\ \E t \in Temperatures \cup {llm_temperature} :
          lib_call = LLMObject(t, "none", <<>>, FALSE)
    /\ lib_ret = <<>>

\* LLM.chat: the temperature of client.chat.completions.create, streamed or not
LLMChat(temperature, stream) ==
    /\ lib_call' = LLMObject(lib_call.self_temperature, "chat", temperature, stream)
    /\ lib_ret' = <<temperature_or(temperature, lib_call.self_temperature)>>
    /\ UNCHANGED <<agentVars, flowVars, memVars>>

\* LLM.chat_with_tools: request_params["temperature"]
LLMChatWithTools(temperature) ==
    /\ lib_call' = LLMObject(lib_call.self_temperature, "chat_with_tools", temperature, FALSE)
    /\ lib_ret' = <<temperature_or(temperature, lib_call.self_temperature)>>
    /\ UNCHANGED <<agentVars, flowVars, memVars>>

\* _self_evaluate_result: self.llm.chat(..., temperature=0.0, max_tokens=500)
CriticChat ==
    /\ lib_call' = LLMObject(lib_call.self_temperature, "_self_evaluate_result", <<0>>, FALSE)
    /\ lib_ret' = <<temperature_or(<<0>>, lib_call.self_temperature)>>
    /\ UNCHANGED <<agentVars, flowVars, memVars>>

NextTemperature ==
    \/ \E temperature \in TemperatureArgs, stream \in BOOLEAN : LLMChat(temperature, stream)
    \/ \E temperature \in TemperatureArgs : LLMChatWithTools(temperature)
    \/ CriticChat

SpecTemperature == InitTemperature /\ [][NextTemperature]_vars

\* C40: a temperature passed to chat or chat_with_tools is the temperature of
\* the request sent to the provider, also when it is 0; the Critic evaluation,
\* which passes 0.0, is sent with 0.0.
C40_PassedTemperatureSent ==
    (lib_call.name # "none" /\ lib_call.temperature # <<>>)
    => lib_ret = lib_call.temperature

====
